---- MODULE Spec2Model ----
(***************************************************************************)
(* django_nose/plugin.py: the nose plugins ResultPlugin, DjangoSetUpPlugin *)
(* and DjangoTestPlugin as a state machine.  The hooks begin, beforeTest,  *)
(* afterTest and finalize are the actions; the plugins' attributes and the *)
(* Django objects the hooks act on (settings, mail.outbox, the             *)
(* transaction-management stack, the patched commit/rollback methods, the  *)
(* connection and the tables) are the state.                               *)
(***************************************************************************)
EXTENDS Integers, Sequences, FiniteSets, TLC

(* Bounds of the model. *)
MaxMail == 1        \* messages a test may leave in mail.outbox
MaxRow == 1         \* rows a test may save or delete are 1..MaxRow
MaxDepth == 2       \* cap on nested enter_transaction_management calls
MaxHandle == 2      \* setup_databases returns a handle in 1..MaxHandle
MaxResult == 2      \* the result objects nose may hand to finalize are 1..MaxResult

VARIABLES
    settings,       \* django.conf.settings: attribute name -> value, for the names set
    test,           \* the test object handed to beforeTest/afterTest
    outbox,         \* len(mail.outbox)
    tmStack,        \* transaction-management stack: the managed flag of each level
    suppressed,     \* TRUE while transaction.commit/rollback are replaced by nop
    connOpen,       \* the database connection is open
    tables,         \* table contents as seen through the connection
    committed,      \* table contents that are committed
    phase,          \* position in the run: idle, running, inTest, done, aborted
    old_names,      \* DjangoSetUpPlugin.old_names (NoHandle: attribute not set)
    hook,           \* the hook that has just returned ("none": something else happened since)
    trace,          \* the collaborator calls that hook made, in order
    raised,         \* the call whose exception left that hook ("none": it returned normally)
    transaction_support,  \* the local of that name in that hook (FALSE: never assigned)
    outboxBefore,   \* len(mail.outbox) when that hook was called
    returned,       \* what setup_databases returned to the last begin (NoHandle: nothing)
    pre,            \* the test on record: what beforeTest found and decided
    testCommitted,  \* the test on record called transaction.commit() after its last write
    result,         \* ResultPlugin.result (NoResult: attribute not set)
    passed,         \* the result object that hook was called with (NoResult: it took none)
    replaced,       \* what ResultPlugin.result held when that hook was called with one
    calls,          \* the begin and finalize calls nose has made in this run, in order
    begunOnce       \* a begin of DjangoSetUpPlugin has returned normally, in this run or before

vars == <<settings, test, outbox, tmStack, suppressed, connOpen, tables, committed,
          phase, old_names, hook, trace, raised, transaction_support, outboxBefore,
          returned, pre, testCommitted, result, passed, replaced,
          calls, begunOnce>>

----------------------------------------------------------------------------
(* Values *)

CoverageScore == 500            \* the score of nose's coverage plugin

NoHandle == 0
DjangoSetUpPlugin_name == "django setup"

\* mutant: a score below the coverage plugin's
score_below_coverage == CoverageScore - 100

score == 700                    \* DjangoSetUpPlugin.score
Handles == 1..MaxHandle
Rows == 1..MaxRow
NoResult == 0
Results == 1..MaxResult
InitialData == {0}              \* the rows setup_databases leaves in the tables

SettingNames == {"DISABLE_TRANSACTION_MANAGEMENT", "DATABASE_SUPPORTS_TRANSACTIONS"}
SettingsSpace == UNION {[S -> BOOLEAN] : S \in SUBSET SettingNames}
ContextSpace == UNION {[S -> BOOLEAN] : S \in SUBSET {"use_transaction"}}
Tests == [isDjangoTestCase : BOOLEAN, context : ContextSpace]

hasattr(obj, name) == name \in DOMAIN obj
getattr(obj, name, default) == IF hasattr(obj, name) THEN obj[name] ELSE default
SameAttr(a, b, name) ==
    /\ hasattr(a, name) <=> hasattr(b, name)
    /\ hasattr(a, name) => a[name] = b[name]

Call(op, args, kwargs) == [op |-> op, args |-> args, kwargs |-> kwargs]
Simple(op) == Call(op, <<>>, <<>>)
Ops(tr) == [i \in 1..Len(tr) |-> tr[i].op]

----------------------------------------------------------------------------
(* DjangoTestPlugin: the two predicates *)

\* mutant: the isinstance test dropped, every test is handled
_apply_every_test(t) == TRUE

_apply(t) == ~t.isDjangoTestCase

\* mutant: the DISABLE_TRANSACTION_MANAGEMENT test skipped when the context has a flag
_has_transaction_support_context_wins(t, s) ==
    IF hasattr(s, "DATABASE_SUPPORTS_TRANSACTIONS") /\ ~s["DATABASE_SUPPORTS_TRANSACTIONS"]
      THEN FALSE
    ELSE IF hasattr(t.context, "use_transaction") THEN t.context["use_transaction"]
    ELSE ~getattr(s, "DISABLE_TRANSACTION_MANAGEMENT", FALSE)

\* mutant: DATABASE_SUPPORTS_TRANSACTIONS not consulted
_has_transaction_support_no_database_test(t, s) ==
    IF getattr(s, "DISABLE_TRANSACTION_MANAGEMENT", FALSE) THEN FALSE
    ELSE IF hasattr(t.context, "use_transaction") THEN t.context["use_transaction"]
    ELSE TRUE

\* mutant: the context's use_transaction not consulted
_has_transaction_support_no_context_test(t, s) ==
    IF getattr(s, "DISABLE_TRANSACTION_MANAGEMENT", FALSE) THEN FALSE
    ELSE IF hasattr(s, "DATABASE_SUPPORTS_TRANSACTIONS") /\ ~s["DATABASE_SUPPORTS_TRANSACTIONS"]
      THEN FALSE
    ELSE TRUE

\* mutant: a missing DATABASE_SUPPORTS_TRANSACTIONS read as false
_has_transaction_support_setting_required(t, s) ==
    IF getattr(s, "DISABLE_TRANSACTION_MANAGEMENT", FALSE) THEN FALSE
    ELSE IF ~getattr(s, "DATABASE_SUPPORTS_TRANSACTIONS", FALSE) THEN FALSE
    ELSE IF hasattr(t.context, "use_transaction") THEN t.context["use_transaction"]
    ELSE TRUE

_has_transaction_support(t, s) ==
    LET fromContext == IF hasattr(t.context, "use_transaction")
                         THEN t.context["use_transaction"]
                         ELSE TRUE
        afterDisable == IF getattr(s, "DISABLE_TRANSACTION_MANAGEMENT", FALSE)
                          THEN FALSE
                          ELSE fromContext
    IN  IF hasattr(s, "DATABASE_SUPPORTS_TRANSACTIONS")
           /\ ~s["DATABASE_SUPPORTS_TRANSACTIONS"]
          THEN FALSE
          ELSE afterDisable

----------------------------------------------------------------------------
(* The process-wide Django state a hook works on, as one record; a hook is  *)
(* a function from this record to the record it leaves behind.  A statement *)
(* is skipped once an earlier statement of the hook has raised.             *)

Globals == [outbox |-> outbox, tmStack |-> tmStack, suppressed |-> suppressed,
            connOpen |-> connOpen, tables |-> tables, committed |-> committed,
            old_names |-> old_names, transaction_support |-> FALSE,
            trace |-> <<>>, raised |-> "none"]

Top(stack) == stack[Len(stack)]
IsManaged(stack) == Len(stack) > 0 /\ Top(stack)

Called(g, call) == [g EXCEPT !.trace = Append(@, call)]
Raise(g, call) == [Called(g, call) EXCEPT !.raised = call.op]

\* transaction.enter_transaction_management(): a new level that inherits the
\* managed flag of the level below (settings.TRANSACTIONS_MANAGED at the bottom)
enter_transaction_management(g) ==
    IF g.raised # "none" THEN g
    ELSE [Called(g, Simple("enter_transaction_management")) EXCEPT
            !.tmStack = Append(@, IF Len(@) > 0 THEN Top(@) ELSE FALSE)]

\* transaction.managed(flag): sets the managed flag of the innermost level
managed(g, flag) ==
    IF g.raised # "none" THEN g
    ELSE [Called(g, Call("managed", <<flag>>, <<>>)) EXCEPT
            !.tmStack = IF Len(@) > 0 THEN [@ EXCEPT ![Len(@)] = flag] ELSE @]

\* mutant: the methods are left in place
disable_transaction_methods_left(g) ==
    IF g.raised # "none" THEN g ELSE Called(g, Simple("disable_transaction_methods"))

\* disable_transaction_methods(): transaction.commit/rollback become nop
disable_transaction_methods(g) ==
    IF g.raised # "none" THEN g
    ELSE [Called(g, Simple("disable_transaction_methods")) EXCEPT !.suppressed = TRUE]

\* restore_transaction_methods(): transaction.commit/rollback are the real ones
restore_transaction_methods(g) ==
    IF g.raised # "none" THEN g
    ELSE [Called(g, Simple("restore_transaction_methods")) EXCEPT !.suppressed = FALSE]

\* transaction.rollback(): the uncommitted changes are undone
rollback(g, exc) ==
    IF g.raised # "none" THEN g
    ELSE IF exc = "rollback" THEN Raise(g, Simple("rollback"))
    ELSE [Called(g, Simple("rollback")) EXCEPT !.tables = g.committed, !.connOpen = TRUE]

\* mutant: the innermost level is not dropped
leave_transaction_management_level_kept(g) ==
    IF g.raised # "none" THEN g
    ELSE IF Len(g.tmStack) = 0 THEN Raise(g, Simple("leave_transaction_management"))
    ELSE Called(g, Simple("leave_transaction_management"))

\* transaction.leave_transaction_management(): drops the innermost level;
\* TransactionManagementError when the code is under no transaction management
leave_transaction_management(g) ==
    IF g.raised # "none" THEN g
    ELSE IF Len(g.tmStack) = 0 THEN Raise(g, Simple("leave_transaction_management"))
    ELSE [Called(g, Simple("leave_transaction_management")) EXCEPT
            !.tmStack = SubSeq(@, 1, Len(@) - 1)]

\* connection.close(): what was not committed is lost with the connection
connection_close(g) ==
    IF g.raised # "none" THEN g
    ELSE [Called(g, Simple("connection.close")) EXCEPT
            !.connOpen = FALSE, !.tables = g.committed]

\* call_command('flush', verbosity=0, interactive=False): every table back to
\* its initial data, committed unless a managed transaction is open
FlushCall == Call("call_command", <<"flush">>, [verbosity |-> 0, interactive |-> FALSE])

call_command_flush(g, exc) ==
    IF g.raised # "none" THEN g
    ELSE IF exc = "flush" THEN Raise(g, FlushCall)
    ELSE [Called(g, FlushCall) EXCEPT
            !.tables = InitialData,
            !.committed = IF IsManaged(g.tmStack) THEN @ ELSE InitialData,
            !.connOpen = TRUE]

\* mutant: the outbox is kept
reset_outbox_kept(g) == g

\* mail.outbox = []
reset_outbox(g) == IF g.raised # "none" THEN g ELSE [g EXCEPT !.outbox = 0]

----------------------------------------------------------------------------
(* DjangoTestPlugin.beforeTest and afterTest *)

\* mutant: afterTest reuses what beforeTest decided for the running test
decide_remembered(g, t, s) ==
    [g EXCEPT !.transaction_support =
        IF phase = "inTest" THEN pre.decided ELSE _has_transaction_support(t, s)]

\* transaction_support = self._has_transaction_support(test)
decide(g, t, s) == [g EXCEPT !.transaction_support = _has_transaction_support(t, s)]

beforeTest(t, s, g) ==
    IF ~_apply(t) THEN g
    ELSE LET g1 == decide(reset_outbox(g), t, s)
         IN  IF g1.transaction_support
               THEN disable_transaction_methods(
                        managed(enter_transaction_management(g1), TRUE))
               ELSE g1

\* mutant: the rollback path taken whatever the decision
afterTest_always_rollback(t, s, g, exc) ==
    IF ~_apply(t) THEN g
    ELSE connection_close(
             leave_transaction_management(
                 rollback(restore_transaction_methods(decide(g, t, s)), exc)))

\* mutant: transaction management left before the rollback
afterTest_leaves_before_rollback(t, s, g, exc) ==
    IF ~_apply(t) THEN g
    ELSE LET g1 == decide(g, t, s)
         IN  IF g1.transaction_support
               THEN connection_close(
                        rollback(
                            leave_transaction_management(restore_transaction_methods(g1)),
                            exc))
               ELSE call_command_flush(g1, exc)

\* mutant: the connection closed after the flush as well
afterTest_closes_on_both_paths(t, s, g, exc) ==
    IF ~_apply(t) THEN g
    ELSE LET g1 == decide(g, t, s)
         IN  IF g1.transaction_support
               THEN connection_close(
                        leave_transaction_management(
                            rollback(restore_transaction_methods(g1), exc)))
               ELSE connection_close(call_command_flush(g1, exc))

\* mutant: the leave and the close in a finally clause, run although rollback raised
afterTest_cleans_up_in_finally(t, s, g, exc) ==
    IF ~_apply(t) THEN g
    ELSE LET g1 == decide(g, t, s)
             g2 == rollback(restore_transaction_methods(g1), exc)
             g3 == connection_close(
                       leave_transaction_management([g2 EXCEPT !.raised = "none"]))
         IN  IF g1.transaction_support
               THEN IF g2.raised = "none" THEN g3 ELSE [g3 EXCEPT !.raised = g2.raised]
               ELSE call_command_flush(g1, exc)

\* mutant: commit/rollback restored on the flush path too
afterTest_restores_before_flush(t, s, g, exc) ==
    IF ~_apply(t) THEN g
    ELSE LET g1 == decide(g, t, s)
         IN  IF g1.transaction_support
               THEN connection_close(
                        leave_transaction_management(
                            rollback(restore_transaction_methods(g1), exc)))
               ELSE call_command_flush(restore_transaction_methods(g1), exc)

afterTest(t, s, g, exc) ==
    IF ~_apply(t) THEN g
    ELSE LET g1 == decide(g, t, s)
         IN  IF g1.transaction_support
               THEN connection_close(
                        leave_transaction_management(
                            rollback(restore_transaction_methods(g1), exc)))
               ELSE call_command_flush(g1, exc)

----------------------------------------------------------------------------
(* The runner DjangoSetUpPlugin drives, and its begin and finalize *)

\* runner.setup_test_environment(): installs the test mail backend, empty outbox
setup_test_environment(g, exc) ==
    IF g.raised # "none" THEN g
    ELSE IF exc = "setup_test_environment" THEN Raise(g, Simple("setup_test_environment"))
    ELSE [Called(g, Simple("setup_test_environment")) EXCEPT !.outbox = 0]

\* self.old_names = runner.setup_databases(): creates the test database and
\* returns the handle h, which the assignment stores
setup_databases(g, h, exc) ==
    IF g.raised # "none" THEN g
    ELSE IF exc = "setup_databases" THEN Raise(g, Simple("setup_databases"))
    ELSE [Called(g, Call("setup_databases", <<>>, [returned |-> h])) EXCEPT
            !.old_names = h, !.tables = InitialData, !.committed = InitialData,
            !.connOpen = TRUE]

\* mutant: old_names has a default (a class attribute), passed when nothing was stored
teardown_databases_default_handle(g, exc) ==
    IF g.raised # "none" THEN g
    ELSE IF exc = "teardown_databases"
           THEN Raise(g, Call("teardown_databases", <<g.old_names>>, <<>>))
    ELSE [Called(g, Call("teardown_databases", <<g.old_names>>, <<>>)) EXCEPT
            !.connOpen = FALSE, !.tables = {}, !.committed = {}]

\* runner.teardown_databases(self.old_names): destroys the test database;
\* reading an attribute that was never set raises AttributeError before the
\* call is made
teardown_databases(g, exc) ==
    IF g.raised # "none" THEN g
    ELSE IF g.old_names = NoHandle THEN [g EXCEPT !.raised = "AttributeError"]
    ELSE IF exc = "teardown_databases"
           THEN Raise(g, Call("teardown_databases", <<g.old_names>>, <<>>))
    ELSE [Called(g, Call("teardown_databases", <<g.old_names>>, <<>>)) EXCEPT
            !.connOpen = FALSE, !.tables = {}, !.committed = {}]

\* runner.teardown_test_environment(): removes the test outbox
teardown_test_environment(g, exc) ==
    IF g.raised # "none" THEN g
    ELSE IF exc = "teardown_test_environment"
           THEN Raise(g, Simple("teardown_test_environment"))
    ELSE [Called(g, Simple("teardown_test_environment")) EXCEPT !.outbox = 0]

begin(g, h, exc) == setup_databases(setup_test_environment(g, exc), h, exc)

\* mutant: the two teardown calls in the other order
finalize_environment_first(g, exc) ==
    teardown_databases(teardown_test_environment(g, exc), exc)

\* mutant: teardown_test_environment in a finally clause, run although
\* teardown_databases raised
finalize_environment_in_finally(g, exc) ==
    LET g1 == teardown_databases(g, exc)
        g2 == teardown_test_environment([g1 EXCEPT !.raised = "none"], "none")
    IN  IF g1.raised = "none" THEN teardown_test_environment(g1, exc)
        ELSE [g2 EXCEPT !.raised = g1.raised]

finalize(g, exc) == teardown_test_environment(teardown_databases(g, exc), exc)

----------------------------------------------------------------------------
(* ResultPlugin.finalize: the slot after finalize(r), from the slot before *)

\* mutant: a result once stored is kept
ResultPlugin_finalize_first_kept(slot, r) == IF slot = NoResult THEN r ELSE slot

\* self.result = result
ResultPlugin_finalize(slot, r) == r

----------------------------------------------------------------------------
\* A test is on record from its beforeTest until something follows its afterTest.
NoTest == [isDjangoTestCase |-> FALSE, context |-> <<>>]
NoPre == [tables |-> InitialData, clean |-> TRUE, decided |-> FALSE, depth |-> 0,
          suppressed |-> FALSE]

Init ==
    /\ settings \in SettingsSpace
    /\ test = NoTest
    /\ outbox = 0
    /\ tmStack = <<>>
    /\ suppressed = FALSE
    /\ connOpen = FALSE
    /\ tables = InitialData
    /\ committed = InitialData
    /\ phase = "idle"
    /\ old_names = NoHandle
    /\ hook = "none"
    /\ trace = <<>>
    /\ raised = "none"
    /\ transaction_support = FALSE
    /\ outboxBefore = 0
    /\ returned = NoHandle
    /\ pre = NoPre
    /\ testCommitted = FALSE
    /\ result = NoResult
    /\ passed = NoResult
    /\ replaced = NoResult
    /\ calls = <<>>
    /\ begunOnce = FALSE

\* The state a hook leaves behind becomes the state of the process.
Leaves(g) ==
    /\ outbox' = g.outbox
    /\ tmStack' = g.tmStack
    /\ suppressed' = g.suppressed
    /\ connOpen' = g.connOpen
    /\ tables' = g.tables
    /\ committed' = g.committed
    /\ old_names' = g.old_names
    /\ trace' = g.trace
    /\ raised' = g.raised
    /\ transaction_support' = g.transaction_support
    /\ outboxBefore' = outbox
    /\ passed' = NoResult
    /\ replaced' = NoResult

\* A step that is no hook: no hook has just returned.
NoHook ==
    /\ hook' = "none"
    /\ trace' = <<>>
    /\ raised' = "none"
    /\ transaction_support' = FALSE
    /\ outboxBefore' = 0
    /\ passed' = NoResult
    /\ replaced' = NoResult

\* the plugins of a run that define begin and finalize: this one and the
\* coverage plugin its score is chosen against
Plugins == {DjangoSetUpPlugin_name, "coverage"}
Score(p) == IF p = DjangoSetUpPlugin_name THEN score ELSE CoverageScore

HookCall(p, h) == [plugin |-> p, hook |-> h]
Has(log, p, h) == \E i \in 1..Len(log) : log[i] = HookCall(p, h)

\* a begin call opens a new run when the run on record has reached its
\* finalize calls or has called this begin already
NewRun(p) == Has(calls, p, "begin") \/ \E i \in 1..Len(calls) : calls[i].hook = "finalize"

BeginExceptions == {"none", "setup_test_environment", "setup_databases"}
FinalizeExceptions == {"none", "teardown_databases", "teardown_test_environment"}
AfterTestExceptions == {"none", "rollback", "flush"}

\* nose calls begin() before the first test of a run
Begin ==
    /\ phase \in {"idle", "done", "aborted"}
    /\ \E h \in Handles, exc \in BeginExceptions :
          LET g == begin(Globals, h, exc)
          IN  /\ Leaves(g)
              /\ phase' = IF g.raised = "none" THEN "running" ELSE "aborted"
              /\ returned' = IF g.raised = "none" THEN h ELSE NoHandle
              /\ begunOnce' = (begunOnce \/ g.raised = "none")
    /\ hook' = "begin"
    /\ test' = NoTest /\ pre' = NoPre /\ testCommitted' = FALSE
    /\ calls' = Append(IF NewRun(DjangoSetUpPlugin_name) THEN <<>> ELSE calls,
                       HookCall(DjangoSetUpPlugin_name, "begin"))
    /\ UNCHANGED <<result, settings>>

\* nose calls finalize(result) when the run is over
Finalize ==
    /\ phase \in {"idle", "running", "aborted"}
    /\ \E exc \in FinalizeExceptions : Leaves(finalize(Globals, exc))
    /\ phase' = "done"
    /\ hook' = "finalize"
    /\ test' = NoTest /\ pre' = NoPre /\ testCommitted' = FALSE
    /\ calls' = Append(calls, HookCall(DjangoSetUpPlugin_name, "finalize"))
    /\ UNCHANGED <<result, settings, returned, begunOnce>>

\* nose calls beforeTest(test) for the next test of the run
BeforeTest ==
    /\ phase = "running"
    /\ \E t \in Tests :
          LET g == beforeTest(t, settings, Globals)
          IN  /\ Len(g.tmStack) <= MaxDepth
              /\ test' = t
              /\ Leaves(g)
              /\ pre' = [tables |-> tables, clean |-> (tables = committed),
                         decided |-> g.transaction_support, depth |-> Len(tmStack),
                         suppressed |-> suppressed]
    /\ phase' = "inTest"
    /\ hook' = "beforeTest"
    /\ testCommitted' = FALSE
    /\ UNCHANGED <<begunOnce, calls, result, settings, returned>>

\* nose calls afterTest(test) for the test that has run
AfterTest ==
    /\ phase = "inTest"
    /\ \E exc \in AfterTestExceptions : Leaves(afterTest(test, settings, Globals, exc))
    /\ phase' = "running"
    /\ hook' = "afterTest"
    /\ UNCHANGED <<begunOnce, calls, result, settings, test, returned, pre,
                   testCommitted>>

\* nose calls ResultPlugin.finalize(result) when the run is over, before or
\* after the finalize of DjangoSetUpPlugin
ResultFinalize ==
    /\ phase \in {"idle", "running", "done", "aborted"}
    /\ \E r \in Results :
          /\ result' = ResultPlugin_finalize(result, r)
          /\ passed' = r
    /\ replaced' = result
    /\ hook' = "ResultPlugin.finalize"
    /\ trace' = <<>>
    /\ raised' = "none"
    /\ transaction_support' = FALSE
    /\ outboxBefore' = outbox
    /\ UNCHANGED <<settings, test, outbox, tmStack, suppressed, connOpen, tables,
                   committed, phase, old_names, returned, pre, testCommitted, calls,
                   begunOnce>>

(* What the running test and its surroundings do *)

\* the test sends a message through the test mail backend
TestSendsMail ==
    /\ phase = "inTest"
    /\ outbox < MaxMail
    /\ outbox' = outbox + 1
    /\ NoHook
    /\ UNCHANGED <<begunOnce, calls, result, settings, test, tmStack, suppressed,
                   connOpen, tables, committed, phase, old_names, returned, pre,
                   testCommitted>>

\* the test saves the next row or deletes the last one through the ORM, which
\* commits unless the transaction is managed (a django.test.TestCase undoes
\* its own writes, so only the other tests are followed)
TestWrites ==
    /\ phase = "inTest"
    /\ _apply(test)
    /\ \E r \in Rows :
          /\ \/ r \notin tables /\ \A q \in Rows : q < r => q \in tables
             \/ r \in tables /\ \A q \in Rows : q > r => q \notin tables
          /\ tables' = IF r \in tables THEN tables \ {r} ELSE tables \cup {r}
          /\ committed' = IF IsManaged(tmStack) THEN committed ELSE tables'
    /\ connOpen' = TRUE
    /\ testCommitted' = FALSE
    /\ NoHook
    /\ UNCHANGED <<begunOnce, calls, result, settings, test, outbox, tmStack,
                   suppressed, phase, old_names, returned, pre>>

\* the test calls transaction.commit(), which is nop while suppressed
TestCommits ==
    /\ phase = "inTest"
    /\ _apply(test)
    /\ tables # pre.tables
    /\ ~testCommitted
    /\ testCommitted' = TRUE
    /\ committed' = IF suppressed THEN committed ELSE tables
    /\ NoHook
    /\ UNCHANGED <<begunOnce, calls, result, settings, test, outbox, tmStack,
                   suppressed, connOpen, tables, phase, old_names, returned, pre>>

\* a setting is set, changed or removed, between tests or while one runs
SettingsChange ==
    /\ phase \in {"running", "inTest"}
    /\ \E s \in SettingsSpace :
          /\ \E n \in SettingNames :
                \A m \in SettingNames \ {n} : SameAttr(s, settings, m)
          /\ s # settings
          /\ settings' = s
    /\ NoHook
    /\ IF phase = "inTest"
         THEN UNCHANGED <<test, pre, testCommitted>>
         ELSE test' = NoTest /\ pre' = NoPre /\ testCommitted' = FALSE
    /\ UNCHANGED <<begunOnce, calls, result, outbox, tmStack, suppressed, connOpen,
                   tables, committed, phase, old_names, returned>>

\* use_transaction is set, changed or removed on the running test's context
ContextChange ==
    /\ phase = "inTest"
    /\ \E c \in ContextSpace : c # test.context /\ test' = [test EXCEPT !.context = c]
    /\ NoHook
    /\ UNCHANGED <<begunOnce, calls, result, settings, outbox, tmStack, suppressed,
                   connOpen, tables, committed, phase, old_names, returned, pre,
                   testCommitted>>

Next ==
    \/ Begin
    \/ Finalize
    \/ BeforeTest
    \/ AfterTest
    \/ TestSendsMail
    \/ TestWrites
    \/ TestCommits
    \/ SettingsChange
    \/ ContextChange

Spec == Init /\ [][Next]_vars

\* Runs in which settings and context stay as they are while a test runs.
SettingsChangeBetweenTests == phase = "running" /\ SettingsChange

SteadyNext ==
    \/ Begin
    \/ Finalize
    \/ BeforeTest
    \/ AfterTest
    \/ TestSendsMail
    \/ TestWrites
    \/ TestCommits
    \/ SettingsChangeBetweenTests

SteadySpec == Init /\ [][SteadyNext]_vars

\* nose sorts its plugins by score and the hooks of the one with the higher
\* score run outside the other's: begin calls go from the highest score down,
\* finalize calls from the lowest score up
SetupTurn(p) ==
    LET run == IF NewRun(p) THEN <<>> ELSE calls
    IN  \A q \in Plugins : Score(q) > Score(p) => Has(run, q, "begin")

TeardownTurn(p) ==
    /\ ~Has(calls, p, "finalize")
    /\ \A q \in Plugins : Score(q) < Score(p) => Has(calls, q, "finalize")

OrderedBegin == SetupTurn(DjangoSetUpPlugin_name) /\ Begin

OrderedFinalize == TeardownTurn(DjangoSetUpPlugin_name) /\ Finalize

\* the begin and the finalize of the coverage plugin, which touch nothing here
CoverageBegin ==
    /\ phase # "inTest"
    /\ SetupTurn("coverage")
    /\ calls' = Append(IF NewRun("coverage") THEN <<>> ELSE calls,
                       HookCall("coverage", "begin"))
    /\ NoHook
    /\ UNCHANGED <<settings, test, outbox, tmStack, suppressed, connOpen, tables,
                   committed, phase, old_names, returned, pre, testCommitted, result,
                   begunOnce>>

CoverageFinalize ==
    /\ phase # "inTest"
    /\ TeardownTurn("coverage")
    /\ calls' = Append(calls, HookCall("coverage", "finalize"))
    /\ NoHook
    /\ UNCHANGED <<settings, test, outbox, tmStack, suppressed, connOpen, tables,
                   committed, phase, old_names, returned, pre, testCommitted, result,
                   begunOnce>>

OrderNext ==
    \/ OrderedBegin
    \/ CoverageBegin
    \/ BeforeTest
    \/ AfterTest
    \/ CoverageFinalize
    \/ OrderedFinalize

OrderSpec == Init /\ [][OrderNext]_vars

\* The hooks of the three plugins alone, as nose may call them.
HooksNext ==
    \/ Begin
    \/ Finalize
    \/ BeforeTest
    \/ AfterTest
    \/ ResultFinalize

HooksSpec == Init /\ [][HooksNext]_vars

----------------------------------------------------------------------------
(* The claims *)

TestHookReturned == hook \in {"beforeTest", "afterTest"}
DisableIsTrue ==
    /\ "DISABLE_TRANSACTION_MANAGEMENT" \in DOMAIN settings
    /\ settings["DISABLE_TRANSACTION_MANAGEMENT"]
DatabaseSupportIsFalse ==
    /\ "DATABASE_SUPPORTS_TRANSACTIONS" \in DOMAIN settings
    /\ ~settings["DATABASE_SUPPORTS_TRANSACTIONS"]
ContextHasFlag == "use_transaction" \in DOMAIN test.context
ContextFlagIs(b) == ContextHasFlag /\ test.context["use_transaction"] = b
BeforeTestCalls == <<"enter_transaction_management", "managed", "disable_transaction_methods">>
RollbackCalls == <<"restore_transaction_methods", "rollback",
                   "leave_transaction_management", "connection.close">>
Made(op) == \E i \in 1..Len(trace) : trace[i].op = op

\* C1: whenever a test hook has computed the decision while
\* DISABLE_TRANSACTION_MANAGEMENT is true, the decision is False, whatever the
\* context's use_transaction and whatever DATABASE_SUPPORTS_TRANSACTIONS.
C1_DisableForcesUnsupported ==
    (TestHookReturned /\ ~test.isDjangoTestCase /\ DisableIsTrue)
        => transaction_support = FALSE

C1_Witness ==
    /\ hook = "beforeTest" /\ ~test.isDjangoTestCase
    /\ DisableIsTrue /\ ~DatabaseSupportIsFalse /\ ContextFlagIs(TRUE)
    /\ transaction_support = FALSE

\* C2: whenever a test hook has computed the decision while
\* DATABASE_SUPPORTS_TRANSACTIONS exists and is false, the decision is False,
\* whatever the context and DISABLE_TRANSACTION_MANAGEMENT, and afterTest has
\* made the flush call and nothing else.
C2_DatabaseSettingForcesUnsupported ==
    (TestHookReturned /\ ~test.isDjangoTestCase /\ DatabaseSupportIsFalse)
        => /\ transaction_support = FALSE
           /\ hook = "afterTest" => trace = <<FlushCall>>

C2_Witness ==
    /\ hook = "afterTest" /\ ~test.isDjangoTestCase
    /\ DatabaseSupportIsFalse /\ ~DisableIsTrue /\ ContextFlagIs(TRUE)
    /\ transaction_support = FALSE /\ trace = <<FlushCall>>

\* C3: whenever a test hook has computed the decision for a context with
\* use_transaction=False, the decision is False under every combination of the
\* settings, the one with neither setting defined included.
C3_ContextFalseIsUnsupported ==
    (TestHookReturned /\ ~test.isDjangoTestCase /\ ContextFlagIs(FALSE))
        => transaction_support = FALSE

C3_Witness ==
    /\ hook = "beforeTest" /\ ~test.isDjangoTestCase
    /\ ContextFlagIs(FALSE) /\ DOMAIN settings = {}
    /\ transaction_support = FALSE /\ trace = <<>>

\* C4: with no use_transaction on the context, DISABLE_TRANSACTION_MANAGEMENT
\* absent or false and DATABASE_SUPPORTS_TRANSACTIONS absent or true, the
\* decision is True; beforeTest has then entered a managed transaction and
\* suppressed commit/rollback, afterTest has called rollback and not flush.
C4_DefaultIsTransactional ==
    (TestHookReturned /\ ~test.isDjangoTestCase
       /\ ~ContextHasFlag /\ ~DisableIsTrue /\ ~DatabaseSupportIsFalse)
        => /\ transaction_support = TRUE
           /\ hook = "beforeTest" =>
                 /\ Ops(trace) = BeforeTestCalls
                 /\ IsManaged(tmStack) /\ suppressed
           /\ hook = "afterTest" => Made("rollback") /\ ~Made("call_command")

C4_Witness ==
    /\ hook = "afterTest" /\ ~test.isDjangoTestCase
    /\ ~ContextHasFlag /\ DOMAIN settings = {}
    /\ transaction_support = TRUE /\ raised = "none" /\ Ops(trace) = RollbackCalls

\* C5: a beforeTest or afterTest call for a django.test.TestCase instance
\* changes neither the outbox, the transaction-management stack, the
\* suppression of commit/rollback, the connection nor the tables, and makes no
\* collaborator call (in particular no flush), under every setting and context.
C5_NativeTestCaseUntouched ==
    [][(hook' \in {"beforeTest", "afterTest"} /\ test'.isDjangoTestCase)
          => /\ UNCHANGED <<outbox, tmStack, suppressed, connOpen, tables, committed>>
             /\ trace' = <<>>
             /\ raised' = "none"]_vars

C5_Witness ==
    /\ hook = "afterTest" /\ test.isDjangoTestCase
    /\ outbox > 0 /\ DatabaseSupportIsFalse /\ trace = <<>>

C7_FlushWhenUnsupported ==
    (hook = "afterTest" /\ ~test.isDjangoTestCase /\ ~transaction_support)
        => /\ trace = <<FlushCall>>
           /\ raised = "none" => tables = InitialData

C7_Witness ==
    /\ hook = "afterTest" /\ ~test.isDjangoTestCase /\ ~transaction_support
    /\ ~pre.decided /\ testCommitted /\ raised = "none"
    /\ trace = <<FlushCall>> /\ tables = InitialData

\* C8 as stated: when beforeTest has returned, for whatever test, the outbox is
\* empty.
C8_AsStated == hook = "beforeTest" => outbox = 0

\* C8 as amended: when beforeTest has returned for a test that is no
\* django.test.TestCase instance, the outbox is empty, whatever it held before
\* and whatever the decision.
C8_OutboxEmptyAtTestStart ==
    (hook = "beforeTest" /\ ~test.isDjangoTestCase) => outbox = 0

C8_Witness ==
    /\ hook = "beforeTest" /\ ~test.isDjangoTestCase
    /\ outboxBefore > 0 /\ outbox = 0

\* C9: when afterTest has returned, the outbox is empty.
C9_OutboxEmptyAfterTest == hook = "afterTest" => outbox = 0

\* C10: a begin that returned has called setup_test_environment and then
\* setup_databases; a finalize after such a begin has called teardown_databases
\* first, with the handle that setup_databases returned, and, when that
\* returned, teardown_test_environment next and nothing else.
C10_HandlePassedBack ==
    /\ (hook = "begin" /\ raised = "none")
         => /\ Ops(trace) = <<"setup_test_environment", "setup_databases">>
            /\ trace[2].kwargs.returned = returned
    /\ (hook = "finalize" /\ returned # NoHandle)
         => /\ Len(trace) >= 1
            /\ trace[1] = Call("teardown_databases", <<returned>>, <<>>)
            /\ raised = "none" =>
                  trace = <<trace[1], Simple("teardown_test_environment")>>
            /\ Len(trace) <= 2

C10_Witness ==
    /\ hook = "finalize" /\ raised = "none" /\ returned = MaxHandle
    /\ trace = <<Call("teardown_databases", <<MaxHandle>>, <<>>),
                 Simple("teardown_test_environment")>>

\* C11: a ResultPlugin.finalize(result) call leaves the slot holding the
\* object it was passed, whatever the slot held before, and a step of any
\* other hook (begin, beforeTest, afterTest, the finalize of DjangoSetUpPlugin)
\* leaves the slot as it was.
C11_SlotHoldsLastResult ==
    [][IF hook' = "ResultPlugin.finalize"
         THEN result' = passed'
         ELSE result' = result]_vars

C11_Witness ==
    /\ hook = "ResultPlugin.finalize"
    /\ replaced \notin {NoResult, passed}
    /\ result = passed

DjangoBegin == HookCall(DjangoSetUpPlugin_name, "begin")
DjangoFinalize == HookCall(DjangoSetUpPlugin_name, "finalize")
CalledBefore(a, b) ==
    \E i, j \in 1..Len(calls) : i < j /\ calls[i] = a /\ calls[j] = b

\* C12: under nose's ordering by score, in every run the begin of the coverage
\* plugin (score 500) is called only after the begin of DjangoSetUpPlugin
\* (score 700), and the finalize of DjangoSetUpPlugin only after the finalize
\* of the coverage plugin.
C12_SetUpWrapsCoverage ==
    /\ Has(calls, "coverage", "begin")
         => CalledBefore(DjangoBegin, HookCall("coverage", "begin"))
    /\ Has(calls, DjangoSetUpPlugin_name, "finalize")
         => CalledBefore(HookCall("coverage", "finalize"), DjangoFinalize)

C12_Witness ==
    /\ hook = "finalize"
    /\ calls = <<DjangoBegin, HookCall("coverage", "begin"),
                 HookCall("coverage", "finalize"), DjangoFinalize>>

InTransaction == Len(tmStack) > pre.depth /\ IsManaged(tmStack) /\ suppressed
BackToNormal == Len(tmStack) = pre.depth /\ ~suppressed
DuringApplicableTest == phase = "inTest" /\ _apply(test)

C14_HooksCanDisagree ==
    /\ (hook = "afterTest" /\ _apply(test) /\ pre.decided /\ ~transaction_support)
         => /\ trace = <<FlushCall>>
            /\ Len(tmStack) = pre.depth + 1
            /\ suppressed
    /\ (hook = "afterTest" /\ _apply(test) /\ ~pre.decided /\ transaction_support
          /\ raised # "rollback")
         => /\ Made("rollback") /\ Made("leave_transaction_management")
            /\ ~Made("call_command")
            /\ IF pre.depth = 0
                 THEN raised = "leave_transaction_management" /\ tmStack = <<>>
                 ELSE Len(tmStack) = pre.depth - 1

\* the second disagreement, in a test that began with the level and the
\* suppression an earlier test's first disagreement had left behind
C14_Witness ==
    /\ hook = "afterTest" /\ _apply(test)
    /\ ~pre.decided /\ transaction_support
    /\ pre.depth > 0 /\ pre.suppressed
    /\ Ops(trace) = RollbackCalls
    /\ Len(tmStack) = pre.depth - 1

IsPrefix(a, b) == Len(a) <= Len(b) /\ a = SubSeq(b, 1, Len(a))

\* C15: on the transactional path the calls afterTest has made are, in this
\* order, restore_transaction_methods, rollback, leave_transaction_management
\* and connection.close, up to the call that raised, and all four when it
\* returned; rollback is always called, so it comes before the leave and
\* before the close.
C15_RollbackThenLeaveThenClose ==
    (hook = "afterTest" /\ _apply(test) /\ transaction_support)
        => /\ IsPrefix(Ops(trace), RollbackCalls)
           /\ Made("rollback")
           /\ raised = "none" => Ops(trace) = RollbackCalls /\ ~connOpen

C15_Witness ==
    /\ hook = "afterTest" /\ _apply(test) /\ transaction_support /\ pre.decided
    /\ testCommitted /\ raised = "none"
    /\ Ops(trace) = RollbackCalls /\ ~connOpen /\ Len(tmStack) = pre.depth

ClosedByHook == \E i \in 1..Len(trace') : trace'[i].op = "connection.close"

C17_ExceptionLeavesAfterTest ==
    [][(hook' = "afterTest" /\ raised' \in {"rollback", "call_command"})
          => /\ trace'[Len(trace')].op = raised'
             /\ Cardinality({i \in 1..Len(trace') : trace'[i].op = raised'}) = 1
             /\ raised' = "rollback" =>
                   Ops(trace') = <<"restore_transaction_methods", "rollback">>
             /\ raised' = "call_command" => trace' = <<FlushCall>>
             /\ UNCHANGED <<tmStack, connOpen, tables, committed>>]_vars

C17_Witness ==
    /\ hook = "afterTest" /\ raised = "rollback" /\ pre.decided /\ testCommitted
    /\ Len(tmStack) = pre.depth + 1 /\ IsManaged(tmStack) /\ connOpen
    /\ ~Made("leave_transaction_management") /\ ~Made("connection.close")

\* C18: a begin left by the exception of setup_test_environment has made that
\* call only, a begin left by the exception of setup_databases has made the
\* two calls and in both cases old_names is what it was before (nothing is
\* stored); a finalize left by the exception of teardown_databases has made
\* that call only, and the outbox teardown_test_environment would have removed
\* is still there.
C18_SetUpExceptionsPropagate ==
    [][/\ (hook' = "begin" /\ raised' = "setup_test_environment")
            => Ops(trace') = <<"setup_test_environment">> /\ old_names' = old_names
       /\ (hook' = "begin" /\ raised' = "setup_databases")
            => /\ Ops(trace') = <<"setup_test_environment", "setup_databases">>
               /\ old_names' = old_names
       /\ (hook' = "finalize" /\ raised' = "teardown_databases")
            => /\ trace' = <<Call("teardown_databases", <<old_names>>, <<>>)>>
               /\ outbox' = outbox]_vars

C18_Witness ==
    /\ hook = "finalize" /\ raised = "teardown_databases"
    /\ Ops(trace) = <<"teardown_databases">>
    /\ outbox > 0 /\ connOpen

Resolved(c, s) ==
    /\ ~("DISABLE_TRANSACTION_MANAGEMENT" \in DOMAIN s /\ s["DISABLE_TRANSACTION_MANAGEMENT"])
    /\ ~("DATABASE_SUPPORTS_TRANSACTIONS" \in DOMAIN s /\ ~s["DATABASE_SUPPORTS_TRANSACTIONS"])
    /\ "use_transaction" \in DOMAIN c => c["use_transaction"]

\* C19: in every run, whatever tests, hooks and changes came before, the
\* decision a beforeTest or afterTest call computes for an applicable test is
\* one fixed function of the context and the settings as they are at the call;
\* the call leaves settings and context as they are, and a beforeTest whose
\* decision is false, which does nothing else but empty the outbox, leaves the
\* transaction state, the connection and the tables as they are.
C19_DecisionIsPure ==
    [][(hook' \in {"beforeTest", "afterTest"} /\ _apply(test'))
          => /\ transaction_support' = Resolved(test'.context, settings')
             /\ settings' = settings
             /\ hook' = "afterTest" => test' = test
             /\ (hook' = "beforeTest" /\ ~transaction_support')
                  => /\ UNCHANGED <<tmStack, suppressed, connOpen, tables, committed>>
                     /\ trace' = <<>>]_vars

\* a beforeTest that decides False under a setting turned on since an earlier
\* test, which had decided True and left its level behind
C19_Witness ==
    /\ hook = "beforeTest" /\ _apply(test)
    /\ ~ContextHasFlag /\ DisableIsTrue /\ ~DatabaseSupportIsFalse
    /\ ~transaction_support /\ trace = <<>>
    /\ pre.depth > 0

\* C20: a finalize of DjangoSetUpPlugin called while no begin has ever
\* returned normally (none was called, or every one raised before the handle
\* was stored) is left by an AttributeError before any call is made: neither
\* teardown_databases nor teardown_test_environment is reached, no handle is
\* passed anywhere and the databases, the connection and the outbox are as
\* they were.
C20_FinalizeWithoutBeginFails ==
    [][(hook' = "finalize" /\ ~begunOnce)
          => /\ raised' = "AttributeError"
             /\ trace' = <<>>
             /\ UNCHANGED <<outbox, connOpen, tables, committed, old_names>>]_vars

\* finalize after a begin that raised
C20_Witness ==
    /\ hook = "finalize" /\ ~begunOnce
    /\ calls = <<DjangoBegin, DjangoFinalize>>
    /\ raised = "AttributeError" /\ trace = <<>> /\ old_names = NoHandle

====
